---- MODULE Spec2Model ----
(***************************************************************************)
(* Gaussian_app.py: a Streamlit script.  Every interaction with a slider    *)
(* re-runs the script top to bottom; the script reads the sliders, samples  *)
(* the Gaussian-beam formulas with NumPy and hands the samples to the       *)
(* plots and metric widgets.                                                *)
(*                                                                         *)
(* Numbers.  The script computes in IEEE-754 binary64.  A double is the     *)
(* record [k, s, e, m]: kind ("fin", "zero", "inf", "nan"), sign, and for a *)
(* finite non-zero value s * M * 2^e with 2^52 <= M < 2^53, M held as four  *)
(* 14-bit limbs m[1] (lowest) .. m[4].  +, -, *, / and sqrt round to        *)
(* nearest, ties to even, as the hardware does, so the model carries the    *)
(* same bits as the program.  Left out: the sign of zero, and subnormal     *)
(* results (a result below 2^-1074 * 2^52 becomes zero); the program's      *)
(* magnitudes lie between 1e-9 and 1e12.  np.exp is taken to return the     *)
(* double nearest e^a (libm stays within one unit in the last place of it). *)
(* Python's x ** 2 is taken as the rounded product x * x.                   *)
(*                                                                         *)
(* Streamlit.  A slider returns the value the browser holds for it, or its  *)
(* default when the widget is new; a slider whose arguments changed is a    *)
(* new widget.  Slider positions are the doubles nearest the decimal        *)
(* positions min + k * step.  The script is run to its end before the next  *)
(* interaction is taken up; that scheduling is Streamlit's, not the         *)
(* script's, and the model assumes it.  The styling calls (titles, labels,  *)
(* grids, legends) and figures 1 and 2, which only draw what the steps      *)
(* below computed, are left out.                                            *)
(***************************************************************************)
EXTENDS Integers, Sequences, FiniteSets, TLC

(***************************************************************************)
(* binary64 arithmetic                                                      *)
(***************************************************************************)
Base == 2^14

G(X, k) == IF k >= 1 /\ k <= Len(X) THEN X[k] ELSE 0

BitLen(x) ==
  IF x < 128
  THEN IF x < 8
       THEN IF x < 2 THEN x ELSE IF x < 4 THEN 2 ELSE 3
       ELSE IF x < 32 THEN (IF x < 16 THEN 4 ELSE 5) ELSE (IF x < 64 THEN 6 ELSE 7)
  ELSE IF x < 2048
       THEN IF x < 512 THEN (IF x < 256 THEN 8 ELSE 9) ELSE (IF x < 1024 THEN 10 ELSE 11)
       ELSE IF x < 8192 THEN (IF x < 4096 THEN 12 ELSE 13) ELSE (IF x < 16384 THEN 14 ELSE 15)

Zeros4 == <<0, 0, 0, 0>>
FZero == [k |-> "zero", s |-> 1, e |-> 0, m |-> Zeros4]
FInf(s) == [k |-> "inf", s |-> s, e |-> 0, m |-> Zeros4]
FNaN == [k |-> "nan", s |-> 1, e |-> 0, m |-> Zeros4]
MaxExp == 971
MinExp == -1074
Fin(s, e, m) ==
  IF e > MaxExp THEN FInf(s)
  ELSE IF e < MinExp THEN FZero
  ELSE [k |-> "fin", s |-> s, e |-> e, m |-> m]

\* index of the top non-zero limb of an 8-limb number (0 when the number is 0)
Top8(W) ==
  IF W[8] # 0 THEN 8 ELSE IF W[7] # 0 THEN 7 ELSE IF W[6] # 0 THEN 6 ELSE IF W[5] # 0 THEN 5
  ELSE IF W[4] # 0 THEN 4 ELSE IF W[3] # 0 THEN 3 ELSE IF W[2] # 0 THEN 2 ELSE IF W[1] # 0 THEN 1 ELSE 0

\* the number of bits of an 8-limb number
Bits8(W) == LET t == Top8(W) IN IF t = 0 THEN 0 ELSE 14 * (t - 1) + BitLen(W[t])

Pad8(M) == <<M[1], M[2], M[3], M[4], 0, 0, 0, 0>>

\* floor(W / 2^sh), limbs 1..4
Shr4(W, sh) ==
  LET ls == sh \div 14
      p  == 2^(sh % 14)
      q  == Base \div p
      f(j) == (G(W, ls + j) \div p) + (G(W, ls + j + 1) % p) * q
  IN  <<f(1), f(2), f(3), f(4)>>

\* W * 2^sh, limbs 1..4 or 1..8 (the caller guarantees that it fits)
Shl4(W, sh) ==
  LET ls == sh \div 14
      p  == 2^(sh % 14)
      q  == Base \div p
      f(j) == (G(W, j - ls) % q) * p + (G(W, j - ls - 1) \div q)
  IN  <<f(1), f(2), f(3), f(4)>>

Shl8(W, sh) ==
  LET ls == sh \div 14
      p  == 2^(sh % 14)
      q  == Base \div p
      f(j) == (G(W, j - ls) % q) * p + (G(W, j - ls - 1) \div q)
  IN  <<f(1), f(2), f(3), f(4), f(5), f(6), f(7), f(8)>>

Inc4(M) ==
  IF M[1] + 1 < Base THEN <<M[1] + 1, M[2], M[3], M[4]>>
  ELSE IF M[2] + 1 < Base THEN <<0, M[2] + 1, M[3], M[4]>>
  ELSE IF M[3] + 1 < Base THEN <<0, 0, M[3] + 1, M[4]>>
  ELSE <<0, 0, 0, M[4] + 1>>

\* the part of W below bit sh (with st: and something non-zero below W's unit)
\* against half of 2^sh: -1 below, 0 equal, 1 above
Dropped(W, sh, st) ==
  LET gl == (sh - 1) \div 14
      gp == 2^((sh - 1) % 14)
  IN  IF (W[gl + 1] \div gp) % 2 = 0 THEN -1
      ELSE IF st \/ W[gl + 1] % gp # 0 \/ (\E k \in 1..gl : W[k] # 0) THEN 1
      ELSE 0

\* s * M * 2^e plus the dropped part h, to nearest, ties to even
Rounded(s, e, M, h) ==
  IF h < 0 \/ (h = 0 /\ M[1] % 2 = 0) THEN Fin(s, e, M)
  ELSE IF M = <<Base - 1, Base - 1, Base - 1, 2047>> THEN Fin(s, e + 1, <<0, 0, 0, 1024>>)
  ELSE Fin(s, e, Inc4(M))

RoundL(s, W, e, st, L) ==
  IF L = 0 THEN FZero
  ELSE IF L <= 53 THEN Fin(s, e - (53 - L), Shl4(W, 53 - L))
  ELSE Rounded(s, e + L - 53, Shr4(W, L - 53), Dropped(W, L - 53, st))

\* round-to-nearest-even of s * W * 2^e (W an 8-limb integer; st: a non-zero part
\* below W's unit) to a 53-bit significand
RoundW(s, W, e, st) == RoundL(s, W, e, st, Bits8(W))

\* the same of a quotient or root r = [q, inexact]
RoundQ(s, r, e) == RoundW(s, r.q, e, r.inexact)

Mul4(A, B) ==
  LET t1 == A[1]*B[1]
      t2 == A[1]*B[2] + A[2]*B[1] + (t1 \div Base)
      t3 == A[1]*B[3] + A[2]*B[2] + A[3]*B[1] + (t2 \div Base)
      t4 == A[1]*B[4] + A[2]*B[3] + A[3]*B[2] + A[4]*B[1] + (t3 \div Base)
      t5 == A[2]*B[4] + A[3]*B[3] + A[4]*B[2] + (t4 \div Base)
      t6 == A[3]*B[4] + A[4]*B[3] + (t5 \div Base)
      t7 == A[4]*B[4] + (t6 \div Base)
  IN  <<t1 % Base, t2 % Base, t3 % Base, t4 % Base, t5 % Base, t6 % Base, t7 % Base, t7 \div Base>>

FNeg(a) == IF a.k = "zero" \/ a.k = "nan" THEN a ELSE [a EXCEPT !.s = -a.s]
FAbs(a) == [a EXCEPT !.s = 1]

FMul(a, b) ==
  IF a.k = "nan" \/ b.k = "nan" THEN FNaN
  ELSE IF a.k = "inf" \/ b.k = "inf"
       THEN IF a.k = "zero" \/ b.k = "zero" THEN FNaN ELSE FInf(a.s * b.s)
  ELSE IF a.k = "zero" \/ b.k = "zero" THEN FZero
  ELSE RoundW(a.s * b.s, Mul4(a.m, b.m), a.e + b.e, FALSE)

\* -1, 0, 1 as A < B, A = B, A > B (n-limb integers)
RECURSIVE Cmp(_, _, _)
Cmp(A, B, n) ==
  IF n = 0 THEN 0
  ELSE IF G(A, n) < G(B, n) THEN -1
  ELSE IF G(A, n) > G(B, n) THEN 1
  ELSE Cmp(A, B, n - 1)

\* |a| against |b| of finite non-zero a, b
CmpMag(a, b) ==
  IF a.e < b.e THEN -1 ELSE IF a.e > b.e THEN 1 ELSE Cmp(a.m, b.m, 4)

Add8(A, B) ==
  LET t1 == A[1] + G(B, 1)
      t2 == A[2] + G(B, 2) + (t1 \div Base)
      t3 == A[3] + G(B, 3) + (t2 \div Base)
      t4 == A[4] + G(B, 4) + (t3 \div Base)
      t5 == A[5] + G(B, 5) + (t4 \div Base)
      t6 == A[6] + G(B, 6) + (t5 \div Base)
      t7 == A[7] + G(B, 7) + (t6 \div Base)
      t8 == A[8] + G(B, 8) + (t7 \div Base)
  IN  <<t1 % Base, t2 % Base, t3 % Base, t4 % Base, t5 % Base, t6 % Base, t7 % Base, t8>>

\* A - B for A >= B; \div and % round toward minus infinity, so a borrow is -1
Sub8(A, B) ==
  LET t1 == G(A, 1) - G(B, 1)
      t2 == G(A, 2) - G(B, 2) + (t1 \div Base)
      t3 == G(A, 3) - G(B, 3) + (t2 \div Base)
      t4 == G(A, 4) - G(B, 4) + (t3 \div Base)
      t5 == G(A, 5) - G(B, 5) + (t4 \div Base)
      t6 == G(A, 6) - G(B, 6) + (t5 \div Base)
      t7 == G(A, 7) - G(B, 7) + (t6 \div Base)
      t8 == G(A, 8) - G(B, 8) + (t7 \div Base)
  IN  <<t1 % Base, t2 % Base, t3 % Base, t4 % Base, t5 % Base, t6 % Base, t7 % Base, t8>>

\* a + b (sub = FALSE) or a - b (sub = TRUE) of magnitudes |a| >= |b|, with a's sign
AddMag(a, b, sub) ==
  LET d == a.e - b.e IN
  IF d > 56 THEN a
  ELSE RoundW(a.s, IF sub THEN Sub8(Shl8(a.m, d), b.m) ELSE Add8(Shl8(a.m, d), b.m), b.e, FALSE)

\* c: |a| against |b|
AddOrdered(a, b, c) ==
  IF a.s # b.s /\ c = 0 THEN FZero
  ELSE AddMag(IF c >= 0 THEN a ELSE b, IF c >= 0 THEN b ELSE a, a.s # b.s)

FAdd(a, b) ==
  IF a.k = "nan" \/ b.k = "nan" THEN FNaN
  ELSE IF a.k = "inf"
       THEN IF b.k = "inf" /\ b.s # a.s THEN FNaN ELSE a
  ELSE IF b.k = "inf" THEN b
  ELSE IF a.k = "zero" THEN b
  ELSE IF b.k = "zero" THEN a
  ELSE AddOrdered(a, b, CmpMag(a, b))

FSub(a, b) == FAdd(a, FNeg(b))

\* D * q for a 4-limb D and a digit q: 5 limbs
MulSmall(D, q) ==
  LET t1 == D[1] * q
      t2 == D[2] * q + (t1 \div Base)
      t3 == D[3] * q + (t2 \div Base)
      t4 == D[4] * q + (t3 \div Base)
  IN  <<t1 % Base, t2 % Base, t3 % Base, t4 % Base, t4 \div Base>>

Sub5(A, B) ==
  LET t1 == G(A, 1) - G(B, 1)
      t2 == G(A, 2) - G(B, 2) + (t1 \div Base)
      t3 == G(A, 3) - G(B, 3) + (t2 \div Base)
      t4 == G(A, 4) - G(B, 4) + (t3 \div Base)
      t5 == G(A, 5) - G(B, 5) + (t4 \div Base)
  IN  <<t1 % Base, t2 % Base, t3 % Base, t4 % Base, t5>>

Min(a, b) == IF a < b THEN a ELSE b

\* long division by D (4 limbs, top limb >= Base / 2).  A state of it is
\* <<Q, R>>: the quotient digits so far, the latest first, and the remainder.
\* Digit: the largest digit q with q * D <= R, from the estimate qh >= q
RECURSIVE Digit(_, _, _, _)
Digit(Q, R, D, qh) ==
  LET T == MulSmall(D, qh) IN
  IF Cmp(T, R, 5) <= 0 THEN <<(<<qh>> \o Q), Sub5(R, T)>> ELSE Digit(Q, R, D, qh - 1)

\* the remainder takes a zero limb of the dividend and gives the next digit
DivStep(QR, D) ==
  Digit(QR[1], <<0, QR[2][1], QR[2][2], QR[2][3], QR[2][4]>>, D,
        Min(Base - 1, (QR[2][4] * Base + QR[2][3]) \div D[4]))

DivFirst(N, D) == IF Cmp(N, D, 4) >= 0 THEN <<(<<1>>), Sub5(N, D)>> ELSE <<(<<0>>), N>>

DivLast(QR) ==
  [q |-> <<QR[1][1], QR[1][2], QR[1][3], QR[1][4], QR[1][5], 0, 0, 0>>,
   inexact |-> \E k \in 1..4 : QR[2][k] # 0]

\* floor(N * Base^4 / D) and whether the division is inexact, for 4-limb N, D
\* with top limbs >= Base / 2; the quotient has 5 digits
Div4(N, D) == DivLast(DivStep(DivStep(DivStep(DivStep(DivFirst(N, D), D), D), D), D))

FDiv(a, b) ==
  IF a.k = "nan" \/ b.k = "nan" THEN FNaN
  ELSE IF a.k = "inf" THEN (IF b.k = "inf" THEN FNaN ELSE FInf(a.s * b.s))
  ELSE IF b.k = "inf" THEN FZero
  ELSE IF b.k = "zero" THEN (IF a.k = "zero" THEN FNaN ELSE FInf(a.s))
  ELSE IF a.k = "zero" THEN FZero
  ELSE RoundQ(a.s * b.s, Div4(Shl4(a.m, 3), Shl4(b.m, 3)), a.e - b.e - 56)

\* the double of an integer |n| < 2^31
FromInt(n) ==
  LET a == IF n < 0 THEN -n ELSE n
  IN  RoundW(IF n < 0 THEN -1 ELSE 1,
             <<a % Base, (a \div Base) % Base, a \div (Base * Base), 0, 0, 0, 0, 0>>, 0, FALSE)

\* the double nearest the decimal n / scale, as Python reads a literal
Dec(n, scale) == FDiv(FromInt(n), FromInt(scale))

RECURSIVE ISqrtIter(_, _)
ISqrtIter(y, x) ==
  LET x1 == (x + y \div x) \div 2 IN IF x1 >= x THEN x ELSE ISqrtIter(y, x1)

\* floor(sqrt(y)) of 0 < y < 2^28
ISqrt(y) == ISqrtIter(y, Base)

MulSmall8(P, q) ==
  LET t1 == P[1] * q
      t2 == P[2] * q + (t1 \div Base)
      t3 == P[3] * q + (t2 \div Base)
      t4 == P[4] * q + (t3 \div Base)
      t5 == P[5] * q + (t4 \div Base)
      t6 == P[6] * q + (t5 \div Base)
      t7 == P[7] * q + (t6 \div Base)
      t8 == P[8] * q + (t7 \div Base)
  IN  <<t1 % Base, t2 % Base, t3 % Base, t4 % Base, t5 % Base, t6 % Base, t7 % Base, t8>>

\* digit-by-digit square root.  A state of it is <<S, R>>: the root so far
\* (lowest limb first) and the remainder.
\* SqDigit: the largest digit d with (PB + d) * d <= R, from the estimate d >= it
RECURSIVE SqDigit(_, _, _, _)
SqDigit(S, PB, R, d) ==
  LET T == MulSmall8([PB EXCEPT ![1] = d], d) IN
  IF Cmp(T, R, 8) <= 0
  THEN <<(<<d, S[1], S[2], S[3], S[4], S[5], S[6], S[7]>>), Sub8(R, T)>>
  ELSE SqDigit(S, PB, R, d - 1)

\* P * Base
Up8(P) == <<0, P[1], P[2], P[3], P[4], P[5], P[6], P[7]>>

\* S has j limbs, PB = 2 * S * Base
SqTry(S, PB, R, j) ==
  SqDigit(S, PB, R,
          Min(Base - 1, (R[j + 1] + R[j + 2] * Base + R[j + 3] * Base * Base) \div (2 * S[j])))

\* one digit of the root; hi, lo: the next two limbs of the radicand
SqStep(SR, j, hi, lo) ==
  SqTry(SR[1], Up8(Add8(SR[1], SR[1])),
        <<lo, hi, SR[2][1], SR[2][2], SR[2][3], SR[2][4], SR[2][5], SR[2][6]>>, j)

\* the first digit s of the root, of the top two limbs y of the radicand
SqFirst(y, s) ==
  <<(<<s, 0, 0, 0, 0, 0, 0, 0>>), (<<(y - s * s) % Base, (y - s * s) \div Base, 0, 0, 0, 0, 0, 0>>)>>

SqLast(SR) == [q |-> SR[1], inexact |-> \E k \in 1..8 : SR[2][k] # 0]

\* floor(sqrt(Y)) of an 8-limb Y >= 2^110, and whether Y is no square
Sqrt8(Y) ==
  SqLast(SqStep(SqStep(SqStep(SqFirst(Y[8] * Base + Y[7], ISqrt(Y[8] * Base + Y[7])),
                              1, Y[6], Y[5]), 2, Y[4], Y[3]), 3, Y[2], Y[1]))

FSqrt(a) ==
  IF a.k = "nan" THEN FNaN
  ELSE IF a.k = "zero" THEN FZero
  ELSE IF a.s = -1 THEN FNaN
  ELSE IF a.k = "inf" THEN a
  ELSE LET k == IF (a.e - 58) % 2 = 0 THEN 58 ELSE 59
       IN  RoundQ(1, Sqrt8(Shl8(a.m, k)), (a.e - k) \div 2)

\* -1, 0, 1 as a < b, a = b, a > b (neither a NaN)
Sign(a) == IF a.k = "zero" THEN 0 ELSE a.s
FCmp(a, b) ==
  IF Sign(a) # Sign(b) THEN (IF Sign(a) < Sign(b) THEN -1 ELSE 1)
  ELSE IF Sign(a) = 0 THEN 0
  ELSE IF a.k = "inf" THEN (IF b.k = "inf" THEN 0 ELSE a.s)
  ELSE IF b.k = "inf" THEN -a.s
  ELSE a.s * CmpMag(a, b)
FLess(a, b) == a.k # "nan" /\ b.k # "nan" /\ FCmp(a, b) < 0
FLeq(a, b) == a.k # "nan" /\ b.k # "nan" /\ FCmp(a, b) <= 0

\* ---- exp: the double nearest e^a, through an 84-bit fixed-point evaluation ----
\* a fraction is 6 limbs (84 bits below the point)
Zeros6 == <<0, 0, 0, 0, 0, 0>>
\* floor(ln 2 * 2^84)
Ln2 == <<7739, 10994, 3961, 8007, 8575, 11356>>

\* floor(A * B) of two fractions
FxMul6(A, B) ==
  LET t1 == A[1]*B[1]
      t2 == A[1]*B[2] + A[2]*B[1] + (t1 \div Base)
      t3 == A[1]*B[3] + A[2]*B[2] + A[3]*B[1] + (t2 \div Base)
      t4 == A[1]*B[4] + A[2]*B[3] + A[3]*B[2] + A[4]*B[1] + (t3 \div Base)
      t5 == A[1]*B[5] + A[2]*B[4] + A[3]*B[3] + A[4]*B[2] + A[5]*B[1] + (t4 \div Base)
      t6 == A[1]*B[6] + A[2]*B[5] + A[3]*B[4] + A[4]*B[3] + A[5]*B[2] + A[6]*B[1] + (t5 \div Base)
      t7 == A[2]*B[6] + A[3]*B[5] + A[4]*B[4] + A[5]*B[3] + A[6]*B[2] + (t6 \div Base)
      t8 == A[3]*B[6] + A[4]*B[5] + A[5]*B[4] + A[6]*B[3] + (t7 \div Base)
      t9 == A[4]*B[6] + A[5]*B[5] + A[6]*B[4] + (t8 \div Base)
      t10 == A[5]*B[6] + A[6]*B[5] + (t9 \div Base)
      t11 == A[6]*B[6] + (t10 \div Base)
  IN  <<t7 % Base, t8 % Base, t9 % Base, t10 % Base, t11 % Base, t11 \div Base>>

\* floor(T / n) of a fraction and a small n
FxDivSmall6(T, n) ==
  LET r6 == T[6]
      r5 == (r6 % n) * Base + T[5]
      r4 == (r5 % n) * Base + T[4]
      r3 == (r4 % n) * Base + T[3]
      r2 == (r3 % n) * Base + T[2]
      r1 == (r2 % n) * Base + T[1]
  IN  <<r1 \div n, r2 \div n, r3 \div n, r4 \div n, r5 \div n, r6 \div n>>

\* t + t*r/(n+1) + t*r^2/((n+1)(n+2)) + ... as an 8-limb integer of 2^-84
RECURSIVE ExpSeries(_, _, _)
ExpSeries(r, t, n) ==
  IF t = Zeros6 THEN <<0, 0, 0, 0, 0, 0, 0, 0>>
  ELSE Add8(ExpSeries(r, FxDivSmall6(FxMul6(t, r), n + 1), n + 1), t)

\* the largest q with q * Ln2 <= X, from the estimate q >= it; <<q, X - q * Ln2>>
RECURSIVE Ln2Digit(_, _)
Ln2Digit(X, q) ==
  LET T == MulSmall8(<<Ln2[1], Ln2[2], Ln2[3], Ln2[4], Ln2[5], Ln2[6], 0, 0>>, q) IN
  IF Cmp(T, X, 8) <= 0 THEN <<q, Sub8(X, T)>> ELSE Ln2Digit(X, q - 1)

\* |a| as an 8-limb integer of 2^-84 (2^-106 <= |a| < 2^10)
ExpArg(a) ==
  IF a.e + 84 >= 0 THEN Shl8(a.m, a.e + 84) ELSE Pad8(Shr4(a.m, -(a.e + 84)))

\* X = q * ln 2 + r with 0 <= r < ln 2: <<q, r>>
ExpReduce(X) == Ln2Digit(X, (X[7] * Base + X[6]) \div Ln2[6])

Frac6(X) == <<X[1], X[2], X[3], X[4], X[5], X[6]>>

\* 2^k * e^r of a fraction r
ExpScale(k, r, inexact) ==
  RoundW(1, Add8(<<0, 0, 0, 0, 0, 0, 1, 0>>, ExpSeries(r, r, 1)), k - 84, inexact)

\* e^(s * (d[1] * ln 2 + d[2])); a negative exponent is d[1] + 1 halvings of
\* e^(ln 2 - d[2])
ExpOf(s, d) ==
  LET exact == \A j \in 1..6 : d[2][j] = 0
  IN  IF s = 1 \/ exact THEN ExpScale(s * d[1], Frac6(d[2]), ~exact)
      ELSE ExpScale(-(d[1] + 1), Frac6(Sub8(Ln2, d[2])), TRUE)

NpExp(a) ==
  IF a.k = "nan" THEN FNaN
  ELSE IF a.k = "zero" THEN FromInt(1)
  ELSE IF a.k = "inf" THEN (IF a.s = 1 THEN a ELSE FZero)
  ELSE IF a.e < -106 THEN FromInt(1)
  ELSE IF a.e > -43 THEN (IF a.s = 1 THEN FInf(1) ELSE FZero)
  ELSE ExpOf(a.s, ExpReduce(ExpArg(a)))

\* ---- "%.<d>f": round(|a| * 10^d) half-even, as an integer (finite a below 2^16) ----
FixedRound(M, h) ==
  LET n == M[1] + M[2] * Base + M[3] * Base * Base
  IN  IF h > 0 \/ (h = 0 /\ n % 2 = 1) THEN n + 1 ELSE n

FixedDigits(W, sh) == FixedRound(Shr4(W, sh), Dropped(W, sh, FALSE))

FormatFixed(a, d) ==
  IF a.k = "zero" THEN 0
  ELSE a.s * FixedDigits(MulSmall8(Pad8(a.m), 10^d), -a.e)

(***************************************************************************)
(* the script                                                               *)
(***************************************************************************)
One == [k |-> "fin", s |-> 1, e |-> -52, m |-> <<0, 0, 0, 1024>>]
\* x ** 2
Square(x) == FMul(x, x)
\* fault injection: pi cut to 3.14
PiTruncated == Dec(314, 100)
\* np.pi = 0x400921FB54442D18
NpPi == [k |-> "fin", s |-> 1, e |-> -51, m |-> <<11544, 4368, 8117, 1608>>]
\* a variable of the script that no statement of this run has assigned yet
FNone == [k |-> "none", s |-> 1, e |-> 0, m |-> Zeros4]

\* the sliders, in units of their decimal grids: st.slider(label, min, max, value, step)
LamScale == 1000
LamMin == 400
LamMax == 1550
LamDefault == 632
W0Scale == 10
W0Min == 10
W0Max == 500
W0Default == 100
ZScale == 100
ZMin == 100
ZMax == 10000
ZDefault == 2000
SliceStep == 10
SliceDefault == 0
NumZ == 600
NumR == 200

\* how many positions at each end of the observation slider the user may pick
EdgePositions == 1

\* fault injection: a wavelength slider that reaches 0
LamPositionsWithZero == {0, LamDefault, LamMax}

\* the positions the model lets the user pick: each slider's ends and its default
LamPositions == {LamMin, LamDefault, LamMax}
W0Positions == {W0Min, W0Default, W0Max}
ZPositions == {ZMin, ZDefault, ZMax}
SlicePositions(zmax) ==
  {SliceDefault} \cup {-zmax + SliceStep * j : j \in 0..(EdgePositions - 1)}
                 \cup {zmax - SliceStep * j : j \in 0..(EdgePositions - 1)}

\* the browser's state of the observation slider: the range it was created
\* with (its identity) and its position; NoWidget before the first run
NoWidget == [zmax |-> 0, val |-> SliceDefault]

VARIABLES
  pc,            \* where the script run stands; "idle" between runs
  ui_lam, ui_w0, ui_zmax, ui_slice,     \* the browser's slider state
  discarded,     \* the slider state this run dropped because its widget is gone
  lam_um, w0, z_max,                    \* lines 24-29
  z_max_um, z_axis,                     \* lines 36-37
  z_r, theta_div,                       \* lines 40-41
  w_z, R_z,                             \* lines 42-43
  z_slice_mm, z_slice_um, w_at_slice,   \* lines 77-81
  r_axis, intensity,                    \* lines 84-85
  metrics,                              \* lines 115-125
  mask, curve,                          \* lines 148-149
  first                                 \* what the first run displayed

ui == <<ui_lam, ui_w0, ui_zmax, ui_slice>>
sidebar == <<lam_um, w0, z_max>>
grid == <<z_max_um, z_axis>>
params == <<z_r, theta_div>>
beam == <<w_z, R_z>>
slice == <<z_slice_mm, z_slice_um, w_at_slice>>
profile == <<r_axis, intensity>>
tabs == <<metrics, mask, curve>>
vars == <<pc, ui, discarded, sidebar, grid, params, beam, slice, profile, tabs, first>>

NoMetrics == [z_r_mm |-> 0, theta_mrad |-> 0, b_mm |-> 0, b |-> FNone]

\* what a finished run has computed and displayed
Outputs == <<z_r, theta_div, w_z, R_z, w_at_slice, intensity, metrics, curve>>

\* a run starts with none of the script's names bound
Fresh ==
  /\ lam_um' = FNone /\ w0' = FNone /\ z_max' = FNone
  /\ z_max_um' = FNone /\ z_axis' = <<>>
  /\ z_r' = FNone /\ theta_div' = FNone
  /\ w_z' = <<>> /\ R_z' = <<>>
  /\ z_slice_mm' = FNone /\ z_slice_um' = FNone /\ w_at_slice' = FNone
  /\ r_axis' = <<>> /\ intensity' = <<>>
  /\ metrics' = NoMetrics /\ mask' = <<>> /\ curve' = <<>>
  /\ discarded' = NoWidget
  /\ first' = IF first.set THEN first ELSE [set |-> TRUE, out |-> Outputs]
  /\ pc' = "sidebar"

Init ==
  /\ pc = "sidebar"
  /\ ui_lam = LamDefault /\ ui_w0 = W0Default /\ ui_zmax = ZDefault /\ ui_slice = NoWidget
  /\ discarded = NoWidget
  /\ lam_um = FNone /\ w0 = FNone /\ z_max = FNone
  /\ z_max_um = FNone /\ z_axis = <<>>
  /\ z_r = FNone /\ theta_div = FNone
  /\ w_z = <<>> /\ R_z = <<>>
  /\ z_slice_mm = FNone /\ z_slice_um = FNone /\ w_at_slice = FNone
  /\ r_axis = <<>> /\ intensity = <<>>
  /\ metrics = NoMetrics /\ mask = <<>> /\ curve = <<>>
  /\ first = [set |-> FALSE, out |-> <<>>]

\* ---- the user moves a slider; Streamlit re-runs the script ----
MoveLam ==
  /\ pc = "idle"
  /\ \E n \in LamPositions \ {ui_lam} : ui_lam' = n
  /\ Fresh
  /\ UNCHANGED <<ui_w0, ui_zmax, ui_slice>>

MoveW0 ==
  /\ pc = "idle"
  /\ \E n \in W0Positions \ {ui_w0} : ui_w0' = n
  /\ Fresh
  /\ UNCHANGED <<ui_lam, ui_zmax, ui_slice>>

MoveZmax ==
  /\ pc = "idle"
  /\ \E n \in ZPositions \ {ui_zmax} : ui_zmax' = n
  /\ Fresh
  /\ UNCHANGED <<ui_lam, ui_w0, ui_slice>>

MoveSlice ==
  /\ pc = "idle"
  /\ \E n \in SlicePositions(ui_slice.zmax) \ {ui_slice.val} :
        ui_slice' = [ui_slice EXCEPT !.val = n]
  /\ Fresh
  /\ UNCHANGED <<ui_lam, ui_w0, ui_zmax>>

\* ---- lines 24-29: the sidebar sliders ----
Sidebar ==
  /\ pc = "sidebar"
  /\ lam_um' = Dec(ui_lam, LamScale)
  /\ w0' = Dec(ui_w0, W0Scale)
  /\ z_max' = Dec(ui_zmax, ZScale)
  /\ pc' = "grid"
  /\ UNCHANGED <<ui, discarded, grid, params, beam, slice, profile, tabs, first>>

\* fault injection: np.linspace(start, stop, num, endpoint=False)
LinspaceOpen(start, stop, num) ==
  [i \in 1..num |-> FAdd(FMul(FromInt(i - 1), FDiv(FSub(stop, start), FromInt(num))), start)]

\* np.linspace(start, stop, num): arange(num) * step + start, the last one stop
Linspace(start, stop, num) ==
  LET step == FDiv(FSub(stop, start), FromInt(num - 1))
  IN  [i \in 1..num |-> IF i = num THEN stop
                        ELSE FAdd(FMul(FromInt(i - 1), step), start)]

\* fault injection: the grid spans the range the observation slider was built
\* with in the run before, not this run's z_max
GridStale ==
  /\ pc = "grid"
  /\ z_max_um' = FMul(Dec(ui_slice.zmax, ZScale), FromInt(1000))
  /\ z_axis' = Linspace(FNeg(z_max_um'), z_max_um', NumZ)
  /\ pc' = "params"
  /\ UNCHANGED <<ui, discarded, sidebar, params, beam, slice, profile, tabs, first>>

\* ---- lines 36-37 ----
Grid ==
  /\ pc = "grid"
  /\ z_max_um' = FMul(z_max, FromInt(1000))
  /\ z_axis' = Linspace(FNeg(z_max_um'), z_max_um', NumZ)
  /\ pc' = "params"
  /\ UNCHANGED <<ui, discarded, sidebar, params, beam, slice, profile, tabs, first>>

RayleighRange(lam, w) == FDiv(FMul(NpPi, Square(w)), lam)
DivergenceAngle(lam, w) == FDiv(lam, FMul(NpPi, w))

\* ---- lines 40-41 ----
Params ==
  /\ pc = "params"
  /\ z_r' = RayleighRange(lam_um, w0)
  /\ theta_div' = DivergenceAngle(lam_um, w0)
  /\ pc' = "beam"
  /\ UNCHANGED <<ui, discarded, sidebar, grid, beam, slice, profile, tabs, first>>

\* fault injection: a minus sign under the root
BeamRadiusNarrowing(w, zr, z) == FMul(w, FSqrt(FSub(One, Square(FDiv(z, zr)))))

\* w0 * np.sqrt(1 + (z / z_r) ** 2)
BeamRadius(w, zr, z) == FMul(w, FSqrt(FAdd(One, Square(FDiv(z, zr)))))

\* ---- line 42 ----
BeamWidth ==
  /\ pc = "beam"
  /\ w_z' = [i \in 1..NumZ |-> BeamRadius(w0, z_r, z_axis[i])]
  /\ pc' = "curvature"
  /\ UNCHANGED <<ui, discarded, sidebar, grid, params, R_z, slice, profile, tabs, first>>

\* fault injection: a guard that cancels the first grid point
EpsAtEdge == z_max_um
\* the literal 1e-9
Eps == Dec(1, 10^9)
\* z * (1 + (z_r / (z + 1e-9)) ** 2)
CurvatureRadius(z, zr) == FMul(z, FAdd(One, Square(FDiv(zr, FAdd(z, Eps)))))

\* ---- line 43 ----
Curvature ==
  /\ pc = "curvature"
  /\ R_z' = [i \in 1..NumZ |-> CurvatureRadius(z_axis[i], z_r)]
  /\ pc' = "slice"
  /\ UNCHANGED <<ui, discarded, sidebar, grid, params, w_z, slice, profile, tabs, first>>

\* fault injection: the position survives a change of the range
SliceValueKept(widget, zmax) == widget.val

\* st.slider(label, -z_max, z_max, 0.0, step=0.1): the position of the widget
\* with this range, the default for a new widget
SliceValue(widget, zmax) == IF widget.zmax = zmax THEN widget.val ELSE SliceDefault

\* ---- lines 77-81 ----
Slice ==
  /\ pc = "slice"
  /\ ui_slice' = [zmax |-> ui_zmax, val |-> SliceValue(ui_slice, ui_zmax)]
  /\ discarded' = IF ui_slice.zmax = ui_zmax THEN NoWidget ELSE ui_slice
  /\ z_slice_mm' = Dec(ui_slice'.val, ZScale)
  /\ z_slice_um' = FMul(z_slice_mm', FromInt(1000))
  /\ w_at_slice' = BeamRadius(w0, z_r, z_slice_um')
  /\ pc' = "radial"
  /\ UNCHANGED <<ui_lam, ui_w0, ui_zmax, sidebar, grid, params, beam, profile, tabs, first>>

\* ---- line 84 ----
Radial ==
  /\ pc = "radial"
  /\ r_axis' = Linspace(FMul(FromInt(-3), w_at_slice), FMul(FromInt(3), w_at_slice), NumR)
  /\ pc' = "profile"
  /\ UNCHANGED <<ui, discarded, sidebar, grid, params, beam, slice, intensity, tabs, first>>

\* fault injection: the sign of the exponent lost
TransverseIntensityGrowing(r, w) == NpExp(FDiv(FMul(FromInt(2), Square(r)), Square(w)))

\* np.exp(-2 * r ** 2 / w ** 2)
TransverseIntensity(r, w) == NpExp(FDiv(FMul(FromInt(-2), Square(r)), Square(w)))

\* ---- line 85 ----
Profile ==
  /\ pc = "profile"
  /\ intensity' = [i \in 1..NumR |-> TransverseIntensity(r_axis[i], w_at_slice)]
  /\ pc' = "metrics"
  /\ UNCHANGED <<ui, discarded, sidebar, grid, params, beam, slice, r_axis, tabs, first>>

ConfocalParameter(zr) == FMul(FromInt(2), zr)

\* ---- lines 115-125: the three st.metric texts, as the integers they print ----
Metrics ==
  /\ pc = "metrics"
  /\ metrics' = [z_r_mm |-> FormatFixed(FDiv(z_r, FromInt(1000)), 4),
                 theta_mrad |-> FormatFixed(FMul(theta_div, FromInt(1000)), 2),
                 b_mm |-> FormatFixed(FDiv(ConfocalParameter(z_r), FromInt(1000)), 4),
                 b |-> ConfocalParameter(z_r)]
  /\ pc' = "mask"
  /\ UNCHANGED <<ui, discarded, sidebar, grid, params, beam, slice, profile, mask, curve, first>>

\* fault injection: the mask at one Rayleigh range
MaskFactorOne == One
\* the literal 0.1
MaskFactor == Dec(1, 10)
\* np.abs(z) > 0.1 * z_r
Masked(z, zr) == FLess(FMul(MaskFactor, zr), FAbs(z))

\* ---- lines 148-149: ax3.plot(z_axis[mask] / 1000, R_z[mask] / 1000) ----
CurvaturePlot ==
  /\ pc = "mask"
  /\ mask' = [i \in 1..NumZ |-> Masked(z_axis[i], z_r)]
  /\ curve' = [i \in {j \in 1..NumZ : mask'[j]} |->
                 <<FDiv(z_axis[i], FromInt(1000)), FDiv(R_z[i], FromInt(1000))>>]
  /\ pc' = "idle"
  /\ UNCHANGED <<ui, discarded, sidebar, grid, params, beam, slice, profile, metrics, first>>

Next ==
  \/ MoveLam \/ MoveW0 \/ MoveZmax \/ MoveSlice
  \/ Sidebar \/ Grid \/ Params \/ BeamWidth \/ Curvature
  \/ Slice \/ Radial \/ Profile \/ Metrics \/ CurvaturePlot

Spec == Init /\ [][Next]_vars

(***************************************************************************)
(* properties                                                               *)
(***************************************************************************)
Finite(a) == a.k = "fin" \/ a.k = "zero"
Positive(a) == a.k = "fin" /\ a.s = 1
DefaultInputs ==
  /\ ui_lam = LamDefault /\ ui_w0 = W0Default
  /\ ui_zmax = ZDefault /\ ui_slice.val = SliceDefault
\* the floating tolerance of the comparisons below: 2^-40, relative
Tol == [k |-> "fin", s |-> 1, e |-> -92, m |-> <<0, 0, 0, 1024>>]
Close(a, b) == FLeq(FAbs(FSub(a, b)), FMul(Tol, FAbs(a)))

\* C1: when a run has finished, every curvature sample that survived the mask
\* and was handed to the curvature plot is a finite number, neither NaN nor
\* infinite, and so is the value plotted for it
C1_PlottedCurvatureFinite ==
  pc = "idle" =>
    \A i \in DOMAIN curve : Finite(R_z[i]) /\ Finite(curve[i][1]) /\ Finite(curve[i][2])

\* a finished run whose plot holds samples and whose mask removed some
C1_Witness == pc = "idle" /\ DOMAIN curve # {} /\ \E i \in 1..NumZ : ~mask[i]

\* C2: once the sliders are read the wavelength and the waist radius are
\* finite and strictly positive, and once computed the Rayleigh range, the
\* divergence angle and the confocal parameter are finite and strictly
\* positive: no division met a zero divisor
C2_PositiveParameters ==
  /\ pc # "sidebar" => Positive(lam_um) /\ Positive(w0)
  /\ pc \notin {"sidebar", "grid", "params"} =>
       Positive(z_r) /\ Positive(theta_div) /\ Positive(FMul(NpPi, w0))
  /\ pc \in {"mask", "idle"} => Positive(metrics.b)

\* a finished run, after slider changes, at the smallest wavelength and waist
C2_Witness == pc = "idle" /\ first.set /\ ui_lam = LamMin /\ ui_w0 = W0Min

C5_SliceWithinRange ==
  pc \in {"radial", "profile", "metrics", "mask", "idle"} =>
    FLeq(FNeg(z_max), z_slice_mm) /\ FLeq(z_slice_mm, z_max)

\* a run that dropped an observation position larger than its z_max
C5_Witness ==
  /\ pc = "idle" /\ discarded.zmax # 0
  /\ (discarded.val > ui_zmax \/ -discarded.val > ui_zmax)

\* the observation slider's first step off the waist, 0.1 mm, in um
NearestToWaist == FMul(Dec(SliceStep, ZScale), FromInt(1000))

\* C6: the beam radius at z = 0 is w0; every sampled radius and the radius at
\* the observation position is strictly above w0 unless its z is 0, where it
\* is w0; so is the radius one slider step off the waist
C6_WaistIsMinimum ==
  pc = "idle" =>
    /\ BeamRadius(w0, z_r, FZero) = w0
    /\ FLess(w0, BeamRadius(w0, z_r, NearestToWaist))
    /\ \A i \in 1..NumZ :
         IF z_axis[i].k = "zero" THEN w_z[i] = w0 ELSE FLess(w0, w_z[i])
    /\ IF z_slice_um.k = "zero" THEN w_at_slice = w0 ELSE FLess(w0, w_at_slice)

\* the flattest beam the sliders allow, observed away from the waist
C6_Witness ==
  /\ pc = "idle" /\ ui_lam = LamMin /\ ui_w0 = W0Max /\ ui_zmax = ZMin
  /\ ui_slice.val # 0 /\ FLess(w0, w_at_slice)

\* C7 as stated: the beam radius is even in z and the sampled sequence is
\* equal to its reversal, element by element
C7_ExactReversal ==
  pc = "idle" =>
    \A i \in 1..NumZ :
      /\ BeamRadius(w0, z_r, FNeg(z_axis[i])) = w_z[i]
      /\ w_z[i] = w_z[NumZ + 1 - i]

\* C7: the beam radius is even in z, exactly; the sampled sequence is equal to
\* its reversal within the floating tolerance (the grid itself is symmetric
\* only up to rounding)
C7_ReversalWithinTolerance ==
  pc = "idle" =>
    \A i \in 1..NumZ :
      /\ BeamRadius(w0, z_r, FNeg(z_axis[i])) = w_z[i]
      /\ Close(w_z[i], w_z[NumZ + 1 - i])

\* a finished run whose sampled radii differ from their mirror images
C7_Witness == pc = "idle" /\ \E i \in 1..NumZ : w_z[i] # w_z[NumZ + 1 - i]

\* the samples of the profile: 1 at r = 0, within [0, 1], rising up to the
\* centre and falling after it
ProfileShape ==
  /\ TransverseIntensity(FZero, w_at_slice) = One
  /\ \A i \in 1..NumR : FLeq(FZero, intensity[i]) /\ FLeq(intensity[i], One)
  /\ \A i \in 1..(NumR - 1) :
       /\ Sign(r_axis[i + 1]) <= 0 => FLess(intensity[i], intensity[i + 1])
       /\ Sign(r_axis[i]) >= 0 => FLess(intensity[i + 1], intensity[i])

\* C8 as stated: the shape above, and the sampled sequence is its own mirror
\* image about r = 0
C8_ExactSymmetry ==
  pc = "idle" =>
    ProfileShape /\ \A i \in 1..NumR : intensity[i] = intensity[NumR + 1 - i]

\* C8: the intensity is 1 at r = 0, the samples lie in [0, 1] and fall
\* strictly with |r|, and the sampled sequence is its own mirror image about
\* r = 0 within the floating tolerance
C8_SymmetryWithinTolerance ==
  pc = "idle" =>
    ProfileShape /\ \A i \in 1..NumR : Close(intensity[i], intensity[NumR + 1 - i])

\* a finished run whose profile differs from its mirror image
C8_Witness == pc = "idle" /\ \E i \in 1..NumR : intensity[i] # intensity[NumR + 1 - i]

\* C9 as stated: at the default wavelength and waist z_R = 496.82 um,
\* theta = 0.02011 rad = 20.11 mrad, b = 993.64 um
C9_StatedDefaults ==
  (pc = "idle" /\ ui_lam = LamDefault /\ ui_w0 = W0Default) =>
    /\ FormatFixed(z_r, 2) = 49682
    /\ FormatFixed(theta_div, 5) = 2011
    /\ FormatFixed(FMul(theta_div, FromInt(1000)), 2) = 2011
    /\ FormatFixed(metrics.b, 2) = 99364

\* C9: at the default wavelength and waist z_R = 497.09 um,
\* theta = 0.02012 rad = 20.12 mrad, b = 994.17 um, and the metrics read
\* 0.4971 mm, 20.12 mrad and 0.9942 mm
C9_ComputedDefaults ==
  (pc = "idle" /\ ui_lam = LamDefault /\ ui_w0 = W0Default) =>
    /\ FormatFixed(z_r, 2) = 49709
    /\ FormatFixed(theta_div, 5) = 2012
    /\ FormatFixed(FMul(theta_div, FromInt(1000)), 2) = 2012
    /\ FormatFixed(metrics.b, 2) = 99417
    /\ metrics.z_r_mm = 4971 /\ metrics.theta_mrad = 2012 /\ metrics.b_mm = 9942

\* a finished run at the default wavelength and waist
C9_Witness == pc = "idle" /\ ui_lam = LamDefault /\ ui_w0 = W0Default /\ metrics.z_r_mm > 0

\* C10: the curvature plot holds a sample exactly when 1000 * z_max is above
\* 0.1 * z_R; at w0 = 50, lambda = 0.4, z_max = 1, where 0.1 * z_R is 1963 um,
\* all 600 samples are masked out
C10_PlotEmptyBelowThreshold ==
  pc = "idle" =>
    /\ DOMAIN curve # {} <=> FLess(FMul(Dec(1, 10), z_r), z_max_um)
    /\ (ui_lam = LamMin /\ ui_w0 = W0Max /\ ui_zmax = ZMin) =>
         /\ FormatFixed(FMul(Dec(1, 10), z_r), 0) = 1963
         /\ DOMAIN curve = {}
         /\ \A i \in 1..NumZ : ~mask[i]

\* a finished run at w0 = 50, lambda = 0.4, z_max = 1 with nothing to plot
C10_Witness ==
  /\ pc = "idle" /\ ui_lam = LamMin /\ ui_w0 = W0Max /\ ui_zmax = ZMin
  /\ Len(mask) = NumZ /\ DOMAIN curve = {}
====
